---- MODULE Spec2Model ----
(***************************************************************************)
(* The execution pipeline of src/client.rs: the default method `execute`   *)
(* of the traits ClientBlocking and Client.  A call logs the outgoing      *)
(* request, delegates to the implementation's `send`, logs the incoming    *)
(* response, and classifies its status code against HTTP_SUCCESS_CODES.    *)
(* The blocking execute runs to completion in one step; the asynchronous   *)
(* one suspends at `self.send(req).await` and is two steps.                *)
(***************************************************************************)
EXTENDS Integers, Sequences, FiniteSets, TLC

VARIABLES
    kind,    \* kind[i]: the trait whose execute call i runs, "blocking" or "async"
    req,     \* req[i]: the Request the caller passed to execute
    net,     \* net[i]: the Result the implementation's send produces for call i
    pc,      \* pc[i]: "called", "awaiting" (suspended at send.await) or "done"
    trace,   \* trace[i]: the steps call i has performed, in program order
    result,  \* result[i]: what execute returned to the caller, NoResult before
    log      \* the diagnostics sink shared by all calls (the log crate's logger)

vars == <<kind, req, net, pc, trace, result, log>>

----------------------------------------------------------------------------
(* Bounds of the model *)

\* longest response body, in bytes
MaxBody == 3
\* number of asynchronous calls in flight on one client instance
NumCalls == 2

----------------------------------------------------------------------------
(* Option and Result values *)

None == [tag |-> "None"]
Some(x) == [tag |-> "Some", value |-> x]
Ok(x) == [tag |-> "Ok", value |-> x]
Err(e) == [tag |-> "Err", error |-> e]
NoResult == [tag |-> "NoResult"]

\* Option<T> of a Result<T, E>: Result::ok
ok(r) == IF r.tag = "Ok" THEN Some(r.value) ELSE None

----------------------------------------------------------------------------
(* Data model *)

\* the range written half-open, 200..208
HTTP_SUCCESS_CODES_HalfOpen == 200..207

\* const HTTP_SUCCESS_CODES: RangeInclusive<u16> = 200..=208
HTTP_SUCCESS_CODES == 200..208

\* RangeInclusive::contains
contains(range, c) == c \in range

\* url::Url, kept as its components
Urls == [scheme : {"https"}, host : {"api.io", "cdn.io"}, path : {"/v1"}]

\* Url's Display / to_string: the serialization of the components
to_string(u) == u.scheme \o "://" \o u.host \o u.path

\* the bytes bodies are made of: 'A' (0x41), the two bytes of U+00E9 (0xC3
\* 0xA9), two lead bytes of three-byte characters (0xE2, and 0xED whose
\* second byte is restricted to keep the surrogates out), and 0xFF
Bytes == {65, 195, 169, 226, 237, 255}

RECURSIVE SeqsUpTo(_, _)
SeqsUpTo(S, n) ==
    IF n = 0 THEN {<<>>}
    ELSE LET shorter == SeqsUpTo(S, n - 1)
         IN shorter \cup {Append(s, x) : s \in {t \in shorter : Len(t) = n - 1}, x \in S}

Bodies == SeqsUpTo(Bytes, MaxBody)

\* the u16 status codes tried: both ends of the type, both edges of the
\* success range, and codes below, inside and above it
Codes == {0, 199, 200, 208, 209, 226, 404, 65535}

\* struct Response { url, code, body }
Responses == [url : Urls, code : Codes, body : Bodies]

\* struct Request { url, method, query, headers, body }: a GET without
\* headers and body and a POST with both, each to either url and with the
\* query pairs in either order
Requests ==
    [url : Urls,
     method : {"GET"},
     query : {<<<<"a", 1>>, <<"b", 2>>>>, <<<<"b", 2>>, <<"a", 1>>>>},
     headers : {<<>>},
     body : {<<>>}]
    \cup
    [url : Urls,
     method : {"POST"},
     query : {<<<<"a", 1>>, <<"b", 2>>>>, <<<<"b", 2>>, <<"a", 1>>>>},
     headers : {<<<<"X-K", "v">>, <<"Accept", "*">>>>},
     body : {<<65, 255>>}]

\* the ClientError values a send implementation returns: opaque transport
\* failures, and a ServerResponseError the implementation built itself
SendErrors ==
    {[variant |-> "RequestError"],
     [variant |-> "ResponseError"],
     [variant |-> "ServerResponseError", url |-> "https://api.io/v1",
      code |-> 200, content |-> None]}

\* Result<Response, ClientError> as returned by send
SendResults == {Ok(r) : r \in Responses} \cup {Err(e) : e \in SendErrors}

----------------------------------------------------------------------------
(* String::from_utf8 *)

\* core::str::utf8_char_width: the length of the character a byte starts
utf8_char_width(b) ==
    IF b < 128 THEN 1
    ELSE IF b \in 194..223 THEN 2
    ELSE IF b \in 224..239 THEN 3
    ELSE IF b \in 240..244 THEN 4
    ELSE 0

\* a continuation byte, 0b10xxxxxx
is_cont(b) == b \in 128..191

\* the range of the second byte the lead byte allows (it excludes overlong
\* forms, the surrogates and values above U+10FFFF)
second_ok(first, second) ==
    IF first = 224 THEN second \in 160..191
    ELSE IF first = 237 THEN second \in 128..159
    ELSE IF first = 240 THEN second \in 144..191
    ELSE IF first = 244 THEN second \in 128..143
    ELSE is_cont(second)

\* the bytes taken for chars without validation
from_utf8_unchecked(v) == Ok(v)

\* String::from_utf8(vec): Ok of the text when the bytes are well formed,
\* Err otherwise.  A String is kept as the sequence of its chars (Unicode
\* scalar values), a Vec<u8> as the sequence of its bytes.
RECURSIVE from_utf8(_)
from_utf8(v) ==
    IF v = <<>> THEN Ok(<<>>)
    ELSE
        LET w == utf8_char_width(v[1])
            wellFormed ==
                /\ w > 0
                /\ Len(v) >= w
                /\ w >= 2 => second_ok(v[1], v[2])
                /\ w >= 3 => is_cont(v[3])
                /\ w >= 4 => is_cont(v[4])
            ch == IF w = 1 THEN v[1]
                  ELSE IF w = 2 THEN (v[1] - 192) * 64 + (v[2] - 128)
                  ELSE IF w = 3 THEN (v[1] - 224) * 4096 + (v[2] - 128) * 64 + (v[3] - 128)
                  ELSE (v[1] - 240) * 262144 + (v[2] - 128) * 4096
                       + (v[3] - 128) * 64 + (v[4] - 128)
        IN  IF ~wellFormed THEN Err("FromUtf8Error")
            ELSE LET rest == from_utf8(SubSeq(v, w + 1, Len(v)))
                 IN IF rest.tag = "Err" THEN rest ELSE Ok(<<ch>> \o rest.value)

----------------------------------------------------------------------------
(* The steps of execute, as recorded in trace *)

\* log::info!("Client sending {:#?} request to {} with {} bytes of data", ..)
SendingRecord(r) ==
    [step |-> "log", msg |-> "sending", method |-> r.method,
     url |-> to_string(r.url), bytes |-> Len(r.body)]

\* log::info!("Client received {} response from {} with {} bytes of body data", ..)
ReceivedRecord(response) ==
    [step |-> "log", msg |-> "received", code |-> response.code,
     url |-> to_string(response.url), bytes |-> Len(response.body)]

\* send called with a request rebuilt without its headers
SendStep_Rebuilt(r) == [step |-> "send", req |-> [r EXCEPT !.headers = <<>>]]

\* self.send(req): the call of the implementation's send, with its argument
SendStep(r) == [step |-> "send", req |-> r]

\* the evaluation of HTTP_SUCCESS_CODES.contains(&response.code)
CheckStep(response) == [step |-> "check", code |-> response.code]

\* the implementation's send, called by call i with request r
send(i, r) == net[i]

\* the records among the steps, as the diagnostics sink receives them
Records(steps) == SelectSeq(steps, LAMBDA s : s.step = "log")

----------------------------------------------------------------------------
(* ClientBlocking::execute, lines 25-52 *)

\* send tried a second time after it failed
BlockingSteps_Retry(r, reply) ==
    IF reply.tag = "Err"
    THEN <<SendingRecord(r), SendStep(r), SendStep(r)>>
    ELSE <<SendingRecord(r), SendStep(r), ReceivedRecord(reply.value),
           CheckStep(reply.value)>>

\* the incoming record emitted after the status check
BlockingSteps_LogAfterCheck(r, reply) ==
    IF reply.tag = "Err"
    THEN <<SendingRecord(r), SendStep(r)>>
    ELSE <<SendingRecord(r), SendStep(r), CheckStep(reply.value),
           ReceivedRecord(reply.value)>>

\* the steps of one blocking call, given what send returned
BlockingSteps(r, reply) ==
    IF reply.tag = "Err"
    THEN <<SendingRecord(r), SendStep(r)>>
    ELSE <<SendingRecord(r), SendStep(r), ReceivedRecord(reply.value),
           CheckStep(reply.value)>>

\* the error of send wrapped instead of propagated by `?`
BlockingReturn_Wrapped(reply) ==
    IF reply.tag = "Err"
    THEN Err([variant |-> "RequestError", source |-> reply.error])
    ELSE LET response == reply.value
         IN IF ~contains(HTTP_SUCCESS_CODES, response.code)
            THEN Err([variant |-> "ServerResponseError",
                      url |-> to_string(response.url),
                      code |-> response.code,
                      content |-> ok(from_utf8(response.body))])
            ELSE Ok(response)

\* what the blocking execute returns, given what send returned
BlockingReturn(reply) ==
    IF reply.tag = "Err"
    THEN reply
    ELSE LET response == reply.value
         IN IF ~contains(HTTP_SUCCESS_CODES, response.code)
            THEN Err([variant |-> "ServerResponseError",
                      url |-> to_string(response.url),
                      code |-> response.code,
                      content |-> ok(from_utf8(response.body))])
            ELSE Ok(response)

BlockingExecute(i) ==
    /\ kind[i] = "blocking"
    /\ pc[i] = "called"
    /\ LET reply == send(i, req[i])
           steps == BlockingSteps(req[i], reply)
       IN /\ trace' = [trace EXCEPT ![i] = @ \o steps]
          /\ log' = log \o Records(steps)
          /\ result' = [result EXCEPT ![i] = BlockingReturn(reply)]
    /\ pc' = [pc EXCEPT ![i] = "done"]
    /\ UNCHANGED <<kind, req, net>>

----------------------------------------------------------------------------
(* Client::execute, lines 74-101 *)

\* the steps up to the suspension at self.send(req).await
AsyncStartSteps(r) == <<SendingRecord(r), SendStep(r)>>

\* the incoming record emitted for successful responses only
AsyncResumeSteps_LogOnSuccess(reply) ==
    IF reply.tag = "Err"
    THEN <<>>
    ELSE IF contains(HTTP_SUCCESS_CODES, reply.value.code)
         THEN <<ReceivedRecord(reply.value), CheckStep(reply.value)>>
         ELSE <<CheckStep(reply.value)>>

\* the steps after send's future resolved
AsyncResumeSteps(reply) ==
    IF reply.tag = "Err"
    THEN <<>>
    ELSE <<ReceivedRecord(reply.value), CheckStep(reply.value)>>

\* the status check left out
AsyncReturn_NoCheck(reply) == reply

\* the body of an error response not decoded
AsyncReturn_NoContent(reply) ==
    IF reply.tag = "Err"
    THEN reply
    ELSE LET response == reply.value
         IN IF ~contains(HTTP_SUCCESS_CODES, response.code)
            THEN Err([variant |-> "ServerResponseError",
                      url |-> to_string(response.url),
                      code |-> response.code,
                      content |-> None])
            ELSE Ok(response)

\* what the asynchronous execute returns, given what send resolved to
AsyncReturn(reply) ==
    IF reply.tag = "Err"
    THEN reply
    ELSE LET response == reply.value
         IN IF ~contains(HTTP_SUCCESS_CODES, response.code)
            THEN Err([variant |-> "ServerResponseError",
                      url |-> to_string(response.url),
                      code |-> response.code,
                      content |-> ok(from_utf8(response.body))])
            ELSE Ok(response)

AsyncExecuteStart(i) ==
    /\ kind[i] = "async"
    /\ pc[i] = "called"
    /\ LET steps == AsyncStartSteps(req[i])
       IN /\ trace' = [trace EXCEPT ![i] = @ \o steps]
          /\ log' = log \o Records(steps)
    /\ pc' = [pc EXCEPT ![i] = "awaiting"]
    /\ UNCHANGED <<kind, req, net, result>>

\* the pending send kept in one slot of the client: a resuming call takes
\* the result of the first call that is awaiting
AsyncExecuteResume_SharedSlot(i) ==
    /\ kind[i] = "async"
    /\ pc[i] = "awaiting"
    /\ LET j == CHOOSE k \in DOMAIN pc : pc[k] = "awaiting"
           reply == send(j, req[j])
           steps == AsyncResumeSteps(reply)
       IN /\ trace' = [trace EXCEPT ![i] = @ \o steps]
          /\ log' = log \o Records(steps)
          /\ result' = [result EXCEPT ![i] = AsyncReturn(reply)]
    /\ pc' = [pc EXCEPT ![i] = "done"]
    /\ UNCHANGED <<kind, req, net>>

AsyncExecuteResume(i) ==
    /\ kind[i] = "async"
    /\ pc[i] = "awaiting"
    /\ LET reply == send(i, req[i])
           steps == AsyncResumeSteps(reply)
       IN /\ trace' = [trace EXCEPT ![i] = @ \o steps]
          /\ log' = log \o Records(steps)
          /\ result' = [result EXCEPT ![i] = AsyncReturn(reply)]
    /\ pc' = [pc EXCEPT ![i] = "done"]
    /\ UNCHANGED <<kind, req, net>>

----------------------------------------------------------------------------
(* One request executed by a blocking and by an asynchronous client *)

Init ==
    \E r \in Requests, s \in SendResults :
        /\ kind = <<"blocking", "async">>
        /\ req = <<r, r>>
        /\ net = <<s, s>>
        /\ pc = <<"called", "called">>
        /\ trace = <<<<>>, <<>>>>
        /\ result = <<NoResult, NoResult>>
        /\ log = <<>>

Next ==
    \E i \in DOMAIN pc :
        \/ BlockingExecute(i)
        \/ AsyncExecuteStart(i)
        \/ AsyncExecuteResume(i)

Spec == Init /\ [][Next]_vars

----------------------------------------------------------------------------
(* Several asynchronous calls in flight on one client instance *)

Calls == 1..NumCalls

\* the requests and send results of the concurrent calls
ConcRequests == {r \in Requests : r.query[1][1] = "a"}

ConcResults ==
    {Ok([url |-> u, code |-> c, body |-> b]) :
        u \in {CHOOSE x \in Urls : x.host = "cdn.io"}, c \in {200, 404},
        b \in {<<65>>, <<255>>}}
    \cup {Err([variant |-> "RequestError"])}

InitConc ==
    /\ kind = [i \in Calls |-> "async"]
    /\ req \in [Calls -> ConcRequests]
    /\ net \in [Calls -> ConcResults]
    /\ pc = [i \in Calls |-> "called"]
    /\ trace = [i \in Calls |-> <<>>]
    /\ result = [i \in Calls |-> NoResult]
    /\ log = <<>>

NextConc ==
    \E i \in DOMAIN pc :
        \/ AsyncExecuteStart(i)
        \/ AsyncExecuteResume(i)

SpecConc == InitConc /\ [][NextConc]_vars

----------------------------------------------------------------------------
(* Vocabulary of the properties *)

Done(i) == pc[i] = "done"

\* send returned a response to call i / failed for call i
Responded(i) == net[i].tag = "Ok"
Failed(i) == net[i].tag = "Err"

InRange(c) == 200 <= c /\ c <= 208

\* call i got a response whose code is inside / outside the success range
GotSuccess(i) == Responded(i) /\ InRange(net[i].value.code)
GotErrorStatus(i) == Responded(i) /\ ~InRange(net[i].value.code)

IsServerResponseError(r) ==
    r.tag = "Err" /\ r.error.variant = "ServerResponseError"

\* a Unicode scalar value: a code point that is no surrogate
IsScalar(c) == c \in 0..1114111 /\ c \notin 55296..57343

\* char::encode_utf8, the UTF-8 encoding of one scalar value
EncodeChar(c) ==
    IF c < 128 THEN <<c>>
    ELSE IF c < 2048 THEN <<192 + (c \div 64), 128 + (c % 64)>>
    ELSE IF c < 65536
         THEN <<224 + (c \div 4096), 128 + ((c \div 64) % 64), 128 + (c % 64)>>
    ELSE <<240 + (c \div 262144), 128 + ((c \div 4096) % 64),
           128 + ((c \div 64) % 64), 128 + (c % 64)>>

\* the UTF-8 encoding of a text
RECURSIVE EncodeText(_)
EncodeText(t) == IF t = <<>> THEN <<>> ELSE EncodeChar(Head(t)) \o EncodeText(Tail(t))

\* the value whose payload bits the bytes b carry
PayloadOf(b) ==
    IF Len(b) = 1 THEN b[1]
    ELSE IF Len(b) = 2 THEN (b[1] - 192) * 64 + (b[2] - 128)
    ELSE IF Len(b) = 3 THEN (b[1] - 224) * 4096 + (b[2] - 128) * 64 + (b[3] - 128)
    ELSE (b[1] - 240) * 262144 + (b[2] - 128) * 4096 + (b[3] - 128) * 64 + (b[4] - 128)

\* b is the encoding of some text: it splits into encodings of scalar values
RECURSIVE IsEncodedText(_)
IsEncodedText(b) ==
    \/ b = <<>>
    \/ \E k \in 1..4 :
         /\ k <= Len(b)
         /\ LET c == PayloadOf(SubSeq(b, 1, k))
            IN IsScalar(c) /\ EncodeChar(c) = SubSeq(b, 1, k)
         /\ IsEncodedText(SubSeq(b, k + 1, Len(b)))

StepsOf(i, what) == SelectSeq(trace[i], LAMBDA s : s.step = what)

----------------------------------------------------------------------------
(* C1 *)

\* C1: when send returns a response whose code is in 200..208, execute
\* returns Ok of a Response with the same url, code and body, whatever the
\* body (the empty one included).
C1_SuccessReturnedUnchanged ==
    \A i \in DOMAIN pc :
        Done(i) /\ GotSuccess(i) =>
            /\ result[i].tag = "Ok"
            /\ result[i].value.url = net[i].value.url
            /\ result[i].value.code = net[i].value.code
            /\ result[i].value.body = net[i].value.body

\* both calls returned after send gave code 208 with an empty body
C1_Witness ==
    /\ \A i \in DOMAIN pc : Done(i)
    /\ GotSuccess(1) /\ net[1].value.code = 208 /\ net[1].value.body = <<>>

----------------------------------------------------------------------------
(* C2 *)

\* C2: when send returns a response whose code is outside 200..208, execute
\* returns Err(ServerResponseError) with that code and with the text of the
\* response's url; so an Ok(Response) execute returns has its code in
\* 200..208.
C2_ErrorStatusBecomesError ==
    \A i \in DOMAIN pc :
        /\ Done(i) /\ GotErrorStatus(i) =>
              /\ IsServerResponseError(result[i])
              /\ result[i].error.code = net[i].value.code
              /\ result[i].error.url = to_string(net[i].value.url)
        /\ result[i].tag = "Ok" => InRange(result[i].value.code)

\* both calls returned after send gave code 209 from another url than the
\* request's
C2_Witness ==
    /\ \A i \in DOMAIN pc : Done(i)
    /\ GotErrorStatus(1) /\ net[1].value.code = 209
    /\ net[1].value.url # req[1].url

----------------------------------------------------------------------------
(* C3 *)

\* C3: the content of a ServerResponseError execute produces is Some(T) when
\* the response body is the UTF-8 encoding of the text T (the empty body
\* giving the empty text) and None when the body is not valid UTF-8; the
\* error stays a ServerResponseError with the response's code either way.
C3_ContentIsDecodedBody ==
    \A i \in DOMAIN pc :
        Done(i) /\ GotErrorStatus(i) =>
            LET body == net[i].value.body
                content == result[i].error.content
            IN /\ IsServerResponseError(result[i])
               /\ result[i].error.code = net[i].value.code
               /\ IsEncodedText(body) =>
                     /\ content.tag = "Some"
                     /\ \A k \in DOMAIN content.value : IsScalar(content.value[k])
                     /\ EncodeText(content.value) = body
               /\ ~IsEncodedText(body) => content = None
               /\ body = <<>> => content = Some(<<>>)

\* an error-status response whose body is U+00E9 then 'A' has been
\* classified, its content the two-character text
C3_Witness ==
    /\ \A i \in DOMAIN pc : Done(i)
    /\ GotErrorStatus(1)
    /\ net[1].value.body = <<195, 169, 65>>
    /\ result[1].error.content = Some(<<233, 65>>)

\* an error-status response whose body is the byte 0xFF has been classified
C3_WitnessInvalid ==
    /\ \A i \in DOMAIN pc : Done(i)
    /\ GotErrorStatus(1)
    /\ net[1].value.body = <<255>>

----------------------------------------------------------------------------
(* C4 *)

\* C4: when send returns Err(e), execute returns Err(e), the same value: the
\* pipeline neither wraps nor reclassifies it, and does not reach the
\* status check where it builds a ServerResponseError.
C4_SendErrorVerbatim ==
    \A i \in DOMAIN pc :
        Done(i) /\ Failed(i) =>
            /\ result[i] = net[i]
            /\ result[i].error = net[i].error
            /\ StepsOf(i, "check") = <<>>

\* both calls returned after send failed with a plain transport error
C4_Witness ==
    /\ \A i \in DOMAIN pc : Done(i)
    /\ Failed(1) /\ net[1].error.variant = "RequestError"

----------------------------------------------------------------------------
(* C5 *)

\* C5, as claimed: every call of execute that has returned emitted exactly
\* two diagnostic records, whatever its outcome.
C5_AlwaysTwoRecords ==
    \A i \in DOMAIN pc : Done(i) => Len(StepsOf(i, "log")) = 2

\* C5, amended: a call of execute whose send returned a response (success or
\* error status) emitted exactly two records, the outgoing then the incoming
\* summary; a call whose send failed emitted exactly one, the outgoing
\* summary.
C5_TwoRecordsUnlessSendFails ==
    \A i \in DOMAIN pc :
        Done(i) =>
            /\ Responded(i) =>
                  StepsOf(i, "log") =
                      <<SendingRecord(req[i]), ReceivedRecord(net[i].value)>>
            /\ Failed(i) => StepsOf(i, "log") = <<SendingRecord(req[i])>>

\* one returned call whose send failed, the other call still to resume, so
\* the sink holds the two outgoing records only
C5_Witness ==
    /\ Done(1) /\ Failed(1)
    /\ pc[2] = "awaiting"
    /\ Len(log) = 2

----------------------------------------------------------------------------
(* C6 *)

\* C6: given the same request and the same result of send, the blocking and
\* the asynchronous execute return the same value after the same steps (the
\* same records and the same send invocation, in the same order).
C6_BlockingAsyncEquivalent ==
    \A i, j \in DOMAIN pc :
        /\ kind[i] = "blocking" /\ kind[j] = "async"
        /\ req[i] = req[j] /\ net[i] = net[j]
        /\ Done(i) /\ Done(j)
        => /\ result[i] = result[j]
           /\ trace[i] = trace[j]

\* the blocking and the asynchronous call both classified a 404 response
\* whose body is not valid UTF-8
C6_Witness ==
    /\ kind[1] = "blocking" /\ kind[2] = "async"
    /\ Done(1) /\ Done(2)
    /\ GotErrorStatus(2) /\ net[2].value.code = 404
    /\ net[2].value.body = <<65, 255>>

----------------------------------------------------------------------------
(* C7 *)

\* C7: a call of execute invokes send exactly once; after send failed the
\* call ends there with send as its last step, and after an error-status
\* response it ends at the status check with an error.
C7_SendExactlyOnce ==
    \A i \in DOMAIN pc :
        /\ Len(StepsOf(i, "send")) = IF pc[i] = "called" THEN 0 ELSE 1
        /\ Done(i) /\ Failed(i) =>
              /\ trace[i][Len(trace[i])].step = "send"
              /\ result[i].tag = "Err"
        /\ Done(i) /\ GotErrorStatus(i) =>
              /\ trace[i][Len(trace[i])].step = "check"
              /\ result[i].tag = "Err"

\* the blocking call returned after send failed, the asynchronous one is
\* suspended at its send
C7_Witness ==
    /\ kind[1] = "blocking" /\ Done(1) /\ Failed(1)
    /\ pc[2] = "awaiting"
    /\ Len(StepsOf(2, "send")) = 1

----------------------------------------------------------------------------
(* C8 *)

\* C8: the steps of a call come in a fixed order: the outgoing record, then
\* the send invocation, then (only once send returned a response, of any
\* status) the incoming record, then the status check; the caller has a
\* result only when all of them are done.
C8_FixedOrder ==
    \A i \in DOMAIN pc :
        LET t == trace[i]
        IN /\ pc[i] = "called" => t = <<>>
           /\ pc[i] = "awaiting" => t = <<SendingRecord(req[i]), SendStep(req[i])>>
           /\ Done(i) /\ Failed(i) => t = <<SendingRecord(req[i]), SendStep(req[i])>>
           /\ Done(i) /\ Responded(i) =>
                 t = <<SendingRecord(req[i]), SendStep(req[i]),
                       ReceivedRecord(net[i].value), CheckStep(net[i].value)>>
           /\ result[i] # NoResult => Done(i)

\* both calls logged the incoming record of a 404 response and only then
\* classified it as an error
C8_Witness ==
    /\ \A i \in DOMAIN pc : Done(i)
    /\ GotErrorStatus(1) /\ net[1].value.code = 404
    /\ Len(trace[1]) = 4 /\ trace[1][3].step = "log" /\ trace[1][4].step = "check"
    /\ result[1].tag = "Err"

----------------------------------------------------------------------------
(* C9 *)

\* C9: the Request execute hands to send is, field for field, the Request
\* the caller passed to execute.
C9_RequestPassedUnchanged ==
    \A i \in DOMAIN pc :
        \A k \in DOMAIN trace[i] :
            trace[i][k].step = "send" =>
                /\ trace[i][k].req.url = req[i].url
                /\ trace[i][k].req.method = req[i].method
                /\ trace[i][k].req.query = req[i].query
                /\ trace[i][k].req.headers = req[i].headers
                /\ trace[i][k].req.body = req[i].body

\* send has been invoked with a POST that carries headers, a body, and its
\* query pairs in the order b, a
C9_Witness ==
    /\ pc[2] = "awaiting"
    /\ req[2].method = "POST" /\ req[2].headers # <<>> /\ req[2].body # <<>>
    /\ req[2].query[1][1] = "b"
    /\ trace[2][2].step = "send"

----------------------------------------------------------------------------
(* C10 *)

\* what a call has to return for the result r of its own send
OwnOutcome(r) ==
    IF r.tag = "Err" THEN r
    ELSE IF InRange(r.value.code) THEN Ok(r.value)
    ELSE Err([variant |-> "ServerResponseError",
              url |-> to_string(r.value.url),
              code |-> r.value.code,
              content |-> IF IsEncodedText(r.value.body)
                          THEN Some(from_utf8(r.value.body).value)
                          ELSE None])

\* C10: with several asynchronous calls in flight, interleaved at their send
\* suspension points in any order, what a call returns and the steps it
\* performed are determined by its own request and the result of its own
\* send alone.
C10_CallsIndependent ==
    \A i \in DOMAIN pc :
        /\ Done(i) => result[i] = OwnOutcome(net[i])
        /\ ~Done(i) => result[i] = NoResult
        /\ \A k \in DOMAIN trace[i] :
              /\ trace[i][k].step = "send" => trace[i][k].req = req[i]
              /\ trace[i][k].step = "check" =>
                    Responded(i) /\ trace[i][k].code = net[i].value.code
              /\ trace[i][k].step = "log" =>
                    \/ trace[i][k] = SendingRecord(req[i])
                    \/ Responded(i) /\ trace[i][k] = ReceivedRecord(net[i].value)

\* two calls with different send results, started in the order 1, 2 and
\* resumed in the order 2, 1, have both returned
C10_Witness ==
    /\ Done(1) /\ Done(2)
    /\ Responded(1) /\ Responded(2)
    /\ net[1].value.code = 200 /\ net[2].value.code = 404
    /\ SelectSeq(log, LAMBDA s : s.msg = "received") =
           <<ReceivedRecord(net[2].value), ReceivedRecord(net[1].value)>>
    /\ result[1].tag = "Ok" /\ result[2].tag = "Err"

====
